---- MODULE Spec2Model ----
(***************************************************************************)
(* Client-side state machines of the two document editors of the           *)
(* repository: the PDF resume editor (src/script.js) and the image/OCR     *)
(* editor (src/unnamed/part_001).  Both are single-threaded browser        *)
(* programs: a step of the model is one run-to-completion piece of         *)
(* JavaScript (an event handler up to its first await, the continuation    *)
(* after its awaits, a timer callback, a FileReader callback).             *)
(*                                                                         *)
(* The server is the environment: it answers each request with any of the  *)
(* outcomes fetch() and the body readers can deliver.  The page that wires *)
(* the buttons to the handlers is not part of the sources, so a handler    *)
(* may be invoked in any state; a form control can be used only while it   *)
(* exists in the form.                                                     *)
(*                                                                         *)
(* Arrays are heap objects: generateEditForm stores a REFERENCE to         *)
(* parsedData.fields in currentFields, so an edit is visible through both. *)
(* The heap maps a document number to the arrays of the upload response    *)
(* that carried it; objects no global refers to any more are dropped.      *)
(*                                                                         *)
(* The variable out describes the latest step: the handler that ran, its   *)
(* input, and what it displayed (toasts), sent (requests), read (body)     *)
(* and saved (downloads).  The variable server is the server's record of   *)
(* the sessions it created: the format of the uploaded file and the ids of *)
(* the fields it returned; lastDone records which of a successful upload   *)
(* response and a reset completed last.  Not modelled: the progress bar,   *)
(* the drag-over class, the text of the warnings, the removal timer of a   *)
(* toast, and the choice between <input> and <textarea> for a control.     *)
(***************************************************************************)
EXTENDS Integers, Sequences, FiniteSets, Bags, TLC

\* ---------------------------------------------------------------- bounds
MaxFields == 2
MaxImages == 1
MaxUserEvents == 3

\* ------------------------------------------------------------- constants
Null == 0
EmptyArray == 0
NoConf == -1
LowConfidence == 70
MaxFileSize == 5 * 1024 * 1024

Clients == {"pdf", "image"}
Sections == {"upload", "edit", "preview"}
PdfType == <<"application", "pdf">>
FileTypes == {PdfType, <<"image", "png">>, <<"image", "gif">>}
FileSizes == {MaxFileSize, MaxFileSize + 1}
Files == [type : FileTypes, size : FileSizes]
FileLists == {<<>>} \cup {<<f>> : f \in Files}
SupportedImageTypes ==
    {<<"image", "png">>, <<"image", "jpeg">>, <<"image", "bmp">>, <<"image", "tiff">>}
Messages == {"", "Extracted"}
Typed == {"", "Jane"}
Replacements == {<<"replacement", 0, 0>>}
ConfSamples == {42}
AllConfidences == 0..100

VARIABLES
    client,          \* which of the two programs runs
    sessionId,       \* let sessionId
    parsedData,      \* let parsedData / extractedData: Null or a heap reference
    currentFields,   \* let currentFields: EmptyArray or a heap reference
    currentImages,   \* let currentImages (PDF client): EmptyArray or a reference
    heap,            \* document number -> [fields, images] (the arrays)
    editForm,        \* children of #editForm
    sections,        \* section -> those of the classes active, hidden it has
    loadingHidden,   \* #loadingOverlay has class hidden
    calls,           \* bag of requests in flight (awaited fetches)
    timers,          \* pending 500 ms callbacks of successful uploads, FIFO
    readers,         \* pending FileReader loads of replacement images
    uploads,         \* number of upload responses that created a session
    server,          \* session -> format and field ids of the document it holds
    warningsHidden,  \* #warningsContainer has class hidden
    lastDone,        \* the later of: last successful upload response, last reset
    userEvents,      \* number of user events so far
    out              \* the latest step: handler, input, toasts, requests, ...

vars == <<client, sessionId, parsedData, currentFields, currentImages, heap,
          editForm, sections, loadingHidden, calls, timers, readers, uploads,
          server, warningsHidden, lastDone, userEvents, out>>

\* --------------------------------------------------------------- helpers
Fields == IF currentFields = EmptyArray THEN <<>> ELSE heap[currentFields].fields
Images == IF currentImages = EmptyArray THEN <<>> ELSE heap[currentImages].images

ActiveSections == {s \in Sections : "active" \in sections[s]}

\* The objects a global still refers to.
Collect(h, roots) == [d \in (DOMAIN h) \cap roots |-> h[d]]

\* A user event (a click, a drop, a key stroke): bounded in number.
UserEvent == userEvents < MaxUserEvents /\ userEvents' = userEvents + 1

NoResponse == [status |-> "none", body |-> "none"]

Quiet(op, branch) ==
    [op |-> op, branch |-> branch, files |-> <<>>, response |-> NoResponse,
     read |-> "none", toasts |-> <<>>, requests |-> <<>>, saved |-> <<>>]

ShowToast(message, type) == [message |-> message, type |-> type]

\* showSection(section) on the class lists of the three sections: 'active'
\* removed from all and 'hidden' added to all, then the named one switched.
ShowSectionOnKeepsActive(classes, section) ==
    [s \in Sections |->
        IF s = section THEN ((classes[s] \cup {"hidden"}) \ {"hidden"}) \cup {"active"}
        ELSE classes[s] \cup {"hidden"}]

ShowSectionOn(classes, section) ==
    [s \in Sections |->
        IF s = section
        THEN (((classes[s] \ {"active"}) \cup {"hidden"}) \ {"hidden"}) \cup {"active"}
        ELSE (classes[s] \ {"active"}) \cup {"hidden"}]

\* The class lists after showSection(section), section one of the three.
ShowSection(section) ==
    [s \in Sections |-> IF s = section THEN {"active"} ELSE {"hidden"}]

NoFormat == <<"none", "none">>
Call(kind, sid) == [kind |-> kind, sid |-> sid, format |-> NoFormat]
UploadCall(file) == [kind |-> "upload", sid |-> Null, format |-> file.type]
Send(c) == calls (+) SetToBag({c})
Settle(c) == calls (-) SetToBag({c})

JsonRequest(url) ==
    IF client = "pdf"
    THEN [url |-> url, sessionId |-> sessionId, fields |-> Fields, images |-> Images]
    ELSE [url |-> url, sessionId |-> sessionId, fields |-> Fields]

\* Outcomes of an awaited fetch and of reading its body: the fetch rejects
\* ("neterr"), or resolves with an OK or non-OK status and a body that cannot
\* be read ("bad"), holds an error property ("error") or holds none ("plain").
Responses ==
    {[status |-> "neterr", body |-> "none"]}
    \cup [status : {"ok"}, body : {"plain", "bad"}]
    \cup [status : {"notok"}, body : {"error", "plain", "bad"}]

\* The try block of uploadFile and showPreview runs to its end: the fetch
\* resolved, response.json() parsed the body, and response.ok holds.
SucceededIgnoringStatus(resp) == resp.status # "neterr" /\ resp.body # "bad"

Succeeded(resp) == resp.status = "ok" /\ resp.body # "bad"

\* error.message in the catch block of a handler that reads the body with
\* response.json() before it tests response.ok (uploadFile, showPreview).
ErrorMessageDefaultOnly(resp, default) ==
    IF resp.status = "neterr" THEN "Failed to fetch"
    ELSE IF resp.body = "bad" THEN "Unexpected token"
    ELSE default

ErrorMessage(resp, default) ==
    IF resp.status = "neterr" THEN "Failed to fetch"
    ELSE IF resp.body = "bad" THEN "Unexpected token"
    ELSE IF resp.body = "error" THEN "server error"
    ELSE default

\* error.message in the catch block of a download handler: response.json() is
\* read only when the response is not OK, response.blob() when it is.
DownloadErrorMessage(resp, default) ==
    IF resp.status = "neterr" THEN "Failed to fetch"
    ELSE IF resp.status = "ok" THEN "Failed to fetch"
    ELSE IF resp.body = "bad" THEN "Unexpected token"
    ELSE IF resp.body = "error" THEN "server error"
    ELSE default

\* ------------------------------------------------ documents of the server
NewField(doc, i, conf) ==
    [id |-> <<doc, i>>, label |-> <<"Line", i>>, value |-> "John",
     boundingBox |-> <<doc, i>>, confidence |-> conf]

NewImage(doc, i) == [format |-> "png", data |-> <<"original", doc, i>>]

\* data.data of a successful upload response, for the doc-th session.
Documents(doc, confidences) ==
    IF client = "pdf"
    THEN {[fields |-> [i \in 1..n |-> NewField(doc, i, NoConf)],
           images |-> [i \in 1..m |-> NewImage(doc, i)]] :
             n \in 0..MaxFields, m \in 0..MaxImages}
    ELSE UNION {{[fields |-> [i \in 1..n |-> NewField(doc, i, confs[i])],
                  images |-> <<>>] :
                   confs \in [1..n -> confidences]} : n \in 0..MaxFields}

\* What the server keeps of the session it creates for an uploaded document.
FieldIds(fields) == [i \in 1..Len(fields) |-> fields[i].id]

Session(format, data) == [format |-> format, fields |-> FieldIds(data.fields)]

\* What an upload call can settle with: a failure, or a new session.
UploadOutcomes ==
    {[response |-> r, data |-> [fields |-> <<>>, images |-> <<>>], message |-> ""] :
        r \in Responses \ {[status |-> "ok", body |-> "plain"]}}
    \cup {[response |-> [status |-> "ok", body |-> "plain"], data |-> d, message |-> m] :
            d \in Documents(uploads + 1, ConfSamples),
            m \in IF client = "pdf" THEN {""} ELSE Messages}

\* ------------------------------------------------------------------ Init
Init ==
    /\ client \in Clients
    /\ sessionId = Null
    /\ parsedData = Null
    /\ currentFields = EmptyArray
    /\ currentImages = EmptyArray
    /\ heap = <<>>
    /\ editForm = <<>>
    /\ sections = ShowSection("upload")
    /\ loadingHidden = TRUE
    /\ calls = EmptyBag
    /\ timers = <<>>
    /\ readers = {}
    /\ uploads = 0
    /\ server = <<>>
    /\ warningsHidden = TRUE
    /\ lastDone = "none"
    /\ userEvents = 0
    /\ out = Quiet("init", "done")

\* ---------------------------------------------------------------- upload
\* The validation at the head of uploadFile: the message of the toast it
\* rejects the file with, or "" when the file passes.
ValidateNoSizeCheck(file) ==
    IF client = "pdf" /\ file.type # PdfType THEN "Only PDF files are allowed"
    ELSE IF client = "image" /\ file.type[1] # "image" THEN "Only image files are allowed"
    ELSE ""

Validate(file) ==
    IF client = "pdf" /\ file.size > MaxFileSize THEN "File size exceeds 5 MB limit"
    ELSE IF client = "pdf" /\ file.type # PdfType THEN "Only PDF files are allowed"
    ELSE IF client = "image" /\ file.type[1] # "image" THEN "Only image files are allowed"
    ELSE ""

\* uploadFile(file) up to its await.
UploadFile(file, op) ==
    /\ IF Validate(file) # ""
       THEN /\ out' = [Quiet(op, "rejected") EXCEPT
                         !.files = <<file>>,
                         !.toasts = <<ShowToast(Validate(file), "error")>>]
            /\ UNCHANGED calls
       ELSE /\ calls' = Send(UploadCall(file))
            /\ out' = [Quiet(op, "sent") EXCEPT
                         !.files = <<file>>,
                         !.requests = <<[url |-> "upload", file |-> file]>>]
    /\ UNCHANGED <<client, sessionId, parsedData, currentFields, currentImages,
                   heap, editForm, sections, loadingHidden, timers, readers,
                   uploads, lastDone, server, warningsHidden>>

HandleFileSelect(files) ==
    /\ UserEvent
    /\ IF files # <<>>
       THEN UploadFile(files[1], "handleFileSelect")
       ELSE /\ out' = Quiet("handleFileSelect", "nofile")
            /\ UNCHANGED <<client, sessionId, parsedData, currentFields,
                           currentImages, heap, editForm, sections, loadingHidden,
                           calls, timers, readers, uploads, lastDone, server, warningsHidden>>

HandleDrop(files) ==
    /\ UserEvent
    /\ IF files # <<>> /\ (IF client = "pdf" THEN files[1].type = PdfType
                                            ELSE files[1].type[1] = "image")
       THEN UploadFile(files[1], "handleDrop")
       ELSE /\ out' = [Quiet("handleDrop", "rejected") EXCEPT
                         !.files = files,
                         !.toasts = <<ShowToast(IF client = "pdf"
                                                  THEN "Please upload a PDF file"
                                                  ELSE "Please upload an image file",
                                                "error")>>]
            /\ UNCHANGED <<client, sessionId, parsedData, currentFields,
                           currentImages, heap, editForm, sections, loadingHidden,
                           calls, timers, readers, uploads, lastDone, server, warningsHidden>>

\* uploadFile after its awaits: the fetch has settled and the body was read.
UploadFileAwait(call, outcome) ==
    /\ call.kind = "upload"
    /\ BagIn(call, calls)
    /\ calls' = Settle(call)
    /\ IF Succeeded(outcome.response)
       THEN /\ uploads' = uploads + 1
            /\ sessionId' = uploads + 1
            /\ parsedData' = uploads + 1
            /\ heap' = Collect([d \in DOMAIN heap \cup {uploads + 1} |->
                                   IF d = uploads + 1 THEN outcome.data ELSE heap[d]],
                               {uploads + 1, currentFields, currentImages})
            /\ server' = Append(server, Session(call.format, outcome.data))
            /\ lastDone' = "upload"
            /\ timers' = Append(timers, [message |-> outcome.message])
            /\ out' = [Quiet("uploadFile", "ok") EXCEPT
                         !.response = outcome.response, !.read = "json"]
       ELSE /\ out' = [Quiet("uploadFile", "error") EXCEPT
                         !.response = outcome.response,
                         !.read = IF outcome.response.status = "neterr"
                                  THEN "none" ELSE "json",
                         !.toasts = <<ShowToast(
                             ErrorMessage(outcome.response, "Upload failed"),
                             "error")>>]
            /\ UNCHANGED <<sessionId, parsedData, heap, timers, uploads, lastDone, server>>
    /\ UNCHANGED <<client, currentFields, currentImages, editForm, sections,
                   loadingHidden, readers, warningsHidden, userEvents>>

\* ------------------------------------------------------------ edit form
\* field.confidence && field.confidence < 70
LowConfidenceBadge(field) ==
    /\ field.confidence # NoConf
    /\ field.confidence # 0
    /\ field.confidence < LowConfidence

TextControl(field, index) ==
    [tag |-> "input", index |-> index, id |-> field.id, label |-> field.label,
     value |-> field.value, src |-> <<>>,
     badge |-> client = "image" /\ LowConfidenceBadge(field)]

ImageControl(doc, image, index) ==
    [tag |-> "file", index |-> index, id |-> <<doc, index>>,
     label |-> <<"Image", index>>, value |-> "", src |-> image.data,
     badge |-> FALSE]

NoFieldsMessage ==
    [tag |-> "message", index |-> 0, id |-> <<0, 0>>, label |-> <<"none", 0>>,
     value |-> "No text was detected in the image.", src |-> <<>>,
     badge |-> FALSE]

TextControls(doc) ==
    [i \in 1..Len(heap[doc].fields) |-> TextControl(heap[doc].fields[i], i)]

ImageControls(doc) ==
    [i \in 1..Len(heap[doc].images) |-> ImageControl(doc, heap[doc].images[i], i)]

\* generateEditForm without the message for a document with no fields.
FormOfWithoutMessage(doc) ==
    IF client = "pdf"
    THEN TextControls(doc) \o ImageControls(doc)
    ELSE TextControls(doc)

\* generateEditForm without editForm.innerHTML = '' at its head.
FormOfKeepsOld(doc) ==
    editForm \o (IF client = "pdf"
                 THEN TextControls(doc) \o ImageControls(doc)
                 ELSE IF Len(heap[doc].fields) = 0 THEN <<NoFieldsMessage>>
                 ELSE TextControls(doc))

\* The children of the form once generateEditForm has emptied it and appended
\* the controls of the document parsedData refers to.
FormOf(doc) ==
    IF client = "pdf"
    THEN TextControls(doc) \o ImageControls(doc)
    ELSE IF Len(heap[doc].fields) = 0 THEN <<NoFieldsMessage>>
    ELSE TextControls(doc)

\* The 500 ms callback with a generateEditForm that takes the fields and images
\* of the parsed data only while it has none (currentFields is not reassigned
\* once set).
UploadTimerKeepsFields ==
    /\ timers # <<>>
    /\ timers' = Tail(timers)
    /\ LET message == IF client = "pdf" THEN "Resume parsed successfully!"
                      ELSE IF Head(timers).message # "" THEN Head(timers).message
                      ELSE "Text extracted successfully!"
           toast == <<ShowToast(message, "success")>>
           kept == IF currentFields = EmptyArray THEN parsedData ELSE currentFields
       IN  IF parsedData = Null
           THEN /\ editForm' = <<>>
                /\ out' = [Quiet("uploadTimer", "threw") EXCEPT !.toasts = toast]
                /\ UNCHANGED <<currentFields, currentImages, heap, sections>>
           ELSE /\ editForm' = FormOf(kept)
                /\ currentFields' = kept
                /\ currentImages' = IF client = "pdf" THEN kept ELSE currentImages
                /\ heap' = Collect(heap, {parsedData, kept})
                /\ sections' = ShowSection("edit")
                /\ out' = [Quiet("uploadTimer", "done") EXCEPT !.toasts = toast]
    /\ UNCHANGED <<client, sessionId, parsedData, loadingHidden, calls, readers,
                   uploads, lastDone, server, warningsHidden, userEvents>>

\* The 500 ms callback of a successful upload: toast, generateEditForm,
\* showSection('edit').  With parsedData null, generateEditForm empties the form
\* and then throws on parsedData.fields, which ends the callback.
UploadTimer ==
    /\ timers # <<>>
    /\ timers' = Tail(timers)
    /\ LET message == IF client = "pdf" THEN "Resume parsed successfully!"
                      ELSE IF Head(timers).message # "" THEN Head(timers).message
                      ELSE "Text extracted successfully!"
           toast == <<ShowToast(message, "success")>>
       IN  IF parsedData = Null
           THEN /\ editForm' = <<>>
                /\ out' = [Quiet("uploadTimer", "threw") EXCEPT !.toasts = toast]
                /\ UNCHANGED <<currentFields, currentImages, heap, sections>>
           ELSE /\ editForm' = FormOf(parsedData)
                /\ currentFields' = parsedData
                /\ currentImages' = IF client = "pdf" THEN parsedData ELSE currentImages
                /\ heap' = Collect(heap, {parsedData})
                /\ sections' = ShowSection("edit")
                /\ out' = [Quiet("uploadTimer", "done") EXCEPT !.toasts = toast]
    /\ UNCHANGED <<client, sessionId, parsedData, loadingHidden, calls, readers,
                   uploads, lastDone, server, warningsHidden, userEvents>>

\* The assignment of the input listener of the text control at index:
\* currentFields[index].value = e.target.value.  The heap after it.
WriteFieldLast(index, typed) ==
    [heap EXCEPT ![currentFields].fields[Len(Fields)].value = typed]

WriteField(index, typed) ==
    [heap EXCEPT ![currentFields].fields[index].value = typed]

\* The input event of the text control at position index of the form.
EditField(index, typed) ==
    /\ UserEvent
    /\ index \in 1..Len(editForm)
    /\ editForm[index].tag = "input"
    /\ editForm' = [editForm EXCEPT ![index].value = typed]
    /\ IF index <= Len(Fields)
       THEN heap' = WriteField(index, typed)
       ELSE UNCHANGED heap
    /\ out' = Quiet("input", "done")
    /\ UNCHANGED <<client, sessionId, parsedData, currentFields, currentImages,
                   sections, loadingHidden, calls, timers, readers, uploads, lastDone, server, warningsHidden>>

\* The change event of a replace-image control: starts a FileReader.
ChooseImage(pos, files) ==
    /\ UserEvent
    /\ pos \in 1..Len(editForm)
    /\ editForm[pos].tag = "file"
    /\ IF files # <<>>
       THEN /\ readers' = readers \cup {[index |-> editForm[pos].index,
                                         preview |-> editForm[pos].id,
                                         data |-> files[1]]}
            /\ out' = Quiet("change", "reading")
       ELSE /\ out' = Quiet("change", "nofile")
            /\ UNCHANGED readers
    /\ UNCHANGED <<client, sessionId, parsedData, currentFields, currentImages,
                   heap, editForm, sections, loadingHidden, calls, timers, uploads, lastDone, server, warningsHidden>>

\* reader.onload: writes currentImages[index].data, then the preview's src.
\* With no element at that index the assignment throws and nothing changes.
ReaderOnload(reader) ==
    /\ reader \in readers
    /\ readers' = readers \ {reader}
    /\ IF reader.index <= Len(Images)
       THEN /\ heap' = [heap EXCEPT
                          ![currentImages].images[reader.index].data = reader.data]
            /\ editForm' = [p \in 1..Len(editForm) |->
                              IF editForm[p].tag = "file" /\ editForm[p].id = reader.preview
                              THEN [editForm[p] EXCEPT !.src = reader.data]
                              ELSE editForm[p]]
            /\ out' = Quiet("onload", "done")
       ELSE /\ out' = Quiet("onload", "threw")
            /\ UNCHANGED <<heap, editForm>>
    /\ UNCHANGED <<client, sessionId, parsedData, currentFields, currentImages,
                   sections, loadingHidden, calls, timers, uploads, lastDone, server, warningsHidden, userEvents>>

\* ------------------------------------------------- preview and downloads
\* showPreview up to its await.
ShowPreview ==
    /\ UserEvent
    /\ IF client = "image" /\ Len(Fields) = 0
       THEN /\ out' = [Quiet("showPreview", "nofields") EXCEPT
                         !.toasts = <<ShowToast("No text fields to process", "warning")>>]
            /\ UNCHANGED <<loadingHidden, calls>>
       ELSE /\ loadingHidden' = FALSE
            /\ calls' = Send(Call("preview", sessionId))
            /\ out' = [Quiet("showPreview", "sent") EXCEPT
                         !.requests = <<JsonRequest("preview")>>]
    /\ UNCHANGED <<client, sessionId, parsedData, currentFields, currentImages,
                   heap, editForm, sections, timers, readers, uploads, lastDone, server, warningsHidden>>

\* The body of a preview response may also hold a non-empty list of warnings
\* (data.fontWarnings in the PDF client, data.warnings in the image client).
PreviewResponses == Responses \cup {[status |-> "ok", body |-> "warnings"]}

\* The class hidden of #warningsContainer after a successful preview: removed
\* when the response holds warnings, added when it holds none.
WarningsHiddenNeverAgain(resp) == warningsHidden /\ resp.body # "warnings"

WarningsHidden(resp) == resp.body # "warnings"

\* showPreview after its awaits, with hideLoading() missing from the catch block.
ShowPreviewAwaitNoHide(call, resp) ==
    /\ call.kind = "preview"
    /\ BagIn(call, calls)
    /\ calls' = Settle(call)
    /\ IF Succeeded(resp)
       THEN /\ loadingHidden' = TRUE
            /\ warningsHidden' = WarningsHidden(resp)
            /\ sections' = ShowSection("preview")
            /\ out' = [Quiet("showPreview", "ok") EXCEPT
                         !.response = resp, !.read = "json"]
       ELSE /\ out' = [Quiet("showPreview", "error") EXCEPT
                         !.response = resp,
                         !.read = IF resp.status = "neterr" THEN "none" ELSE "json",
                         !.toasts = <<ShowToast(
                             ErrorMessage(resp, "Preview generation failed"), "error")>>]
            /\ UNCHANGED <<sections, loadingHidden, warningsHidden>>
    /\ UNCHANGED <<client, sessionId, parsedData, currentFields, currentImages,
                   heap, editForm, timers, readers, uploads, lastDone, server, userEvents>>

\* showPreview after its awaits, treating a failed preview as the end of the
\* session (sessionId = null in the catch block).
ShowPreviewAwaitDropsSession(call, resp) ==
    /\ call.kind = "preview"
    /\ BagIn(call, calls)
    /\ calls' = Settle(call)
    /\ loadingHidden' = TRUE
    /\ IF Succeeded(resp)
       THEN /\ warningsHidden' = WarningsHidden(resp)
            /\ sections' = ShowSection("preview")
            /\ out' = [Quiet("showPreview", "ok") EXCEPT
                         !.response = resp, !.read = "json"]
            /\ UNCHANGED sessionId
       ELSE /\ out' = [Quiet("showPreview", "error") EXCEPT
                         !.response = resp,
                         !.read = IF resp.status = "neterr" THEN "none" ELSE "json",
                         !.toasts = <<ShowToast(
                             ErrorMessage(resp, "Preview generation failed"), "error")>>]
            /\ sessionId' = Null
            /\ UNCHANGED <<sections, warningsHidden>>
    /\ UNCHANGED <<client, parsedData, currentFields, currentImages,
                   heap, editForm, timers, readers, uploads, lastDone, server, userEvents>>

\* showPreview after its awaits.
ShowPreviewAwait(call, resp) ==
    /\ call.kind = "preview"
    /\ BagIn(call, calls)
    /\ calls' = Settle(call)
    /\ loadingHidden' = TRUE
    /\ IF Succeeded(resp)
       THEN /\ warningsHidden' = WarningsHidden(resp)
            /\ sections' = ShowSection("preview")
            /\ out' = [Quiet("showPreview", "ok") EXCEPT
                         !.response = resp, !.read = "json"]
       ELSE /\ out' = [Quiet("showPreview", "error") EXCEPT
                         !.response = resp,
                         !.read = IF resp.status = "neterr" THEN "none" ELSE "json",
                         !.toasts = <<ShowToast(
                             ErrorMessage(resp, "Preview generation failed"), "error")>>]
            /\ UNCHANGED <<sections, warningsHidden>>
    /\ UNCHANGED <<client, sessionId, parsedData, currentFields, currentImages,
                   heap, editForm, timers, readers, uploads, lastDone, server, userEvents>>

\* A download handler up to its await: showLoading, then the fetch.
Download(op, url) ==
    /\ UserEvent
    /\ loadingHidden' = FALSE
    /\ calls' = Send(Call(url, sessionId))
    /\ out' = [Quiet(op, "sent") EXCEPT !.requests = <<JsonRequest(url)>>]
    /\ UNCHANGED <<client, sessionId, parsedData, currentFields, currentImages,
                   heap, editForm, sections, timers, readers, uploads, lastDone, server, warningsHidden>>

\* The files a download handler saves for a response: the blob of an OK
\* response, under the handler's file name; nothing otherwise.
SavedAlways(resp, name) == IF resp.status # "neterr" THEN <<name>> ELSE <<>>

Saved(resp, name) ==
    IF resp.status = "ok" /\ resp.body # "bad" THEN <<name>> ELSE <<>>

\* The session a download handler holds after it has settled.
SessionAfterDownloadCleared(resp) ==
    IF resp.status = "ok" /\ resp.body # "bad" THEN Null ELSE sessionId

SessionAfterDownload(resp) == sessionId

\* A download handler after its awaits.
DownloadAwait(op, call, resp, name, default, success) ==
    /\ BagIn(call, calls)
    /\ calls' = Settle(call)
    /\ loadingHidden' = TRUE
    /\ sessionId' = SessionAfterDownload(resp)
    /\ IF resp.status = "ok" /\ resp.body # "bad"
       THEN out' = [Quiet(op, "ok") EXCEPT
                      !.response = resp, !.read = "blob",
                      !.saved = Saved(resp, name),
                      !.toasts = <<ShowToast(success, "success")>>]
       ELSE out' = [Quiet(op, "error") EXCEPT
                      !.response = resp,
                      !.read = IF resp.status = "neterr" THEN "none"
                               ELSE IF resp.status = "ok" THEN "blob" ELSE "json",
                      !.saved = Saved(resp, name),
                      !.toasts = <<ShowToast(DownloadErrorMessage(resp, default),
                                             "error")>>]
    /\ UNCHANGED <<client, parsedData, currentFields, currentImages,
                   heap, editForm, sections, timers, readers, uploads, lastDone, server, warningsHidden, userEvents>>

DownloadPDF ==
    /\ client = "pdf"
    /\ Download("downloadPDF", "regenerate")

DownloadPDFAwait(call, resp) ==
    /\ client = "pdf"
    /\ call.kind = "regenerate"
    /\ DownloadAwait("downloadPDF", call, resp, "resume_edited.pdf",
                     "PDF generation failed", "PDF downloaded successfully!")

DownloadDOCX ==
    /\ client = "pdf"
    /\ Download("downloadDOCX", "export-docx")

DownloadDOCXAwait(call, resp) ==
    /\ client = "pdf"
    /\ call.kind = "export-docx"
    /\ DownloadAwait("downloadDOCX", call, resp, "resume_edited.docx",
                     "DOCX generation failed", "DOCX downloaded successfully!")

DownloadImage ==
    /\ client = "image"
    /\ Download("downloadImage", "regenerate")

DownloadImageAwait(call, resp) ==
    /\ client = "image"
    /\ call.kind = "regenerate"
    /\ DownloadAwait("downloadImage", call, resp, "image_edited.jpg",
                     "Image regeneration failed", "Image downloaded successfully!")

BackToEdit ==
    /\ UserEvent
    /\ sections' = ShowSection("edit")
    /\ out' = Quiet("backToEdit", "done")
    /\ UNCHANGED <<client, sessionId, parsedData, currentFields, currentImages,
                   heap, editForm, loadingHidden, calls, timers, readers, uploads, lastDone, server, warningsHidden>>

\* ----------------------------------------------------------------- reset
\* The tail of resetUpload: reset state, show the upload section, toast.
ResetState(branch) ==
    /\ sessionId' = Null
    /\ parsedData' = Null
    /\ currentFields' = EmptyArray
    /\ currentImages' = EmptyArray
    /\ heap' = <<>>
    /\ editForm' = <<>>
    /\ sections' = ShowSection("upload")
    /\ lastDone' = "reset"
    /\ out' = [Quiet("resetUpload", branch) EXCEPT
                 !.toasts = <<ShowToast("Ready for new upload", "success")>>]

\* resetUpload up to its await; with no session there is no await.
ResetUpload ==
    /\ UserEvent
    /\ IF sessionId # Null
       THEN /\ calls' = Send(Call("clear-session", sessionId))
            /\ out' = [Quiet("resetUpload", "sent") EXCEPT
                         !.requests = <<[url |-> "clear-session",
                                         sessionId |-> sessionId]>>]
            /\ UNCHANGED <<sessionId, parsedData, currentFields, currentImages,
                           heap, editForm, sections, lastDone>>
       ELSE /\ ResetState("nosession")
            /\ UNCHANGED calls
    /\ UNCHANGED <<client, loadingHidden, timers, readers, uploads, server,
                   warningsHidden>>

\* resetUpload after its await, keeping the session when the fetch rejected
\* (the reset moved into the try block).
ResetUploadAwaitKeepsOnFailure(call, rejected) ==
    /\ call.kind = "clear-session"
    /\ BagIn(call, calls)
    /\ calls' = Settle(call)
    /\ IF rejected
       THEN /\ out' = Quiet("resetUpload", "caught")
            /\ UNCHANGED <<sessionId, parsedData, currentFields, currentImages,
                           heap, editForm, sections, lastDone>>
       ELSE ResetState("cleared")
    /\ UNCHANGED <<client, loadingHidden, timers, readers, uploads, server,
                   warningsHidden, userEvents>>

\* resetUpload after its await: a rejected fetch is logged, any response ignored.
ResetUploadAwait(call, rejected) ==
    /\ call.kind = "clear-session"
    /\ BagIn(call, calls)
    /\ calls' = Settle(call)
    /\ ResetState(IF rejected THEN "caught" ELSE "cleared")
    /\ UNCHANGED <<client, loadingHidden, timers, readers, uploads, server,
                   warningsHidden, userEvents>>

\* ------------------------------------------------------------------ Next
InFlight == BagToSet(calls)

Next ==
    \/ \E files \in FileLists : HandleFileSelect(files)
    \/ \E files \in FileLists : HandleDrop(files)
    \/ \E call \in InFlight, outcome \in UploadOutcomes : UploadFileAwait(call, outcome)
    \/ UploadTimer
    \/ \E index \in 1..Len(editForm), typed \in Typed : EditField(index, typed)
    \/ \E pos \in 1..Len(editForm), files \in {<<>>} \cup {<<r>> : r \in Replacements} :
          ChooseImage(pos, files)
    \/ \E reader \in readers : ReaderOnload(reader)
    \/ ShowPreview
    \/ \E call \in InFlight, resp \in PreviewResponses : ShowPreviewAwait(call, resp)
    \/ DownloadPDF
    \/ \E call \in InFlight, resp \in Responses : DownloadPDFAwait(call, resp)
    \/ DownloadDOCX
    \/ \E call \in InFlight, resp \in Responses : DownloadDOCXAwait(call, resp)
    \/ DownloadImage
    \/ \E call \in InFlight, resp \in Responses : DownloadImageAwait(call, resp)
    \/ BackToEdit
    \/ ResetUpload
    \/ \E call \in InFlight, rejected \in BOOLEAN : ResetUploadAwait(call, rejected)

Spec == Init /\ [][Next]_vars

\* The form generator alone, on every OCR confidence: the state right after an
\* upload response of the image client, and the 500 ms callback that builds
\* the form from it.
FormInit ==
    /\ client = "image"
    /\ sessionId = 1
    /\ parsedData = 1
    /\ currentFields = EmptyArray
    /\ currentImages = EmptyArray
    /\ \E doc \in Documents(1, AllConfidences \cup {NoConf}) : heap = <<doc>>
    /\ editForm = <<>>
    /\ sections = ShowSection("upload")
    /\ loadingHidden = TRUE
    /\ calls = EmptyBag
    /\ timers = <<[message |-> ""]>>
    /\ readers = {}
    /\ uploads = 1
    /\ server = <<Session(<<"image", "png">>, heap[1])>>
    /\ warningsHidden = TRUE
    /\ lastDone = "upload"
    /\ userEvents = 1
    /\ out = [Quiet("uploadFile", "ok") EXCEPT
                !.response = [status |-> "ok", body |-> "plain"], !.read = "json"]

FormNext == UploadTimer

SpecForm == FormInit /\ [][FormNext]_vars

\* showSection alone, on every combination of the classes active and hidden
\* the three sections can carry, and on an argument that names no section.
SectionsInit ==
    /\ client \in Clients
    /\ sessionId = Null
    /\ parsedData = Null
    /\ currentFields = EmptyArray
    /\ currentImages = EmptyArray
    /\ heap = <<>>
    /\ editForm = <<>>
    /\ sections \in [Sections -> SUBSET {"active", "hidden"}]
    /\ loadingHidden = TRUE
    /\ calls = EmptyBag
    /\ timers = <<>>
    /\ readers = {}
    /\ uploads = 0
    /\ server = <<>>
    /\ warningsHidden = TRUE
    /\ lastDone = "none"
    /\ userEvents = 0
    /\ out = Quiet("init", "done")

CallShowSection(section) ==
    /\ sections' = ShowSectionOn(sections, section)
    /\ out' = Quiet("showSection", section)
    /\ UNCHANGED <<client, sessionId, parsedData, currentFields, currentImages,
                   heap, editForm, loadingHidden, calls, timers, readers, uploads,
                   server, warningsHidden, lastDone, userEvents>>

SectionsNext == \E section \in Sections \cup {"other"} : CallShowSection(section)

SpecSections == SectionsInit /\ [][SectionsNext]_vars

\* The loading overlay alone: the state once a document is uploaded and its
\* form generated, and from there the handlers that show and hide the overlay.
\* No other handler reads or writes the overlay or these requests.  Every
\* awaited fetch of a preview, regenerate or export settles eventually (it
\* resolves or rejects).
LoadingInit ==
    /\ client \in Clients
    /\ sessionId = 1
    /\ parsedData = 1
    /\ currentFields = 1
    /\ currentImages = IF client = "pdf" THEN 1 ELSE EmptyArray
    /\ \E doc \in Documents(1, ConfSamples) : heap = <<doc>>
    /\ editForm = FormOf(1)
    /\ sections = ShowSection("edit")
    /\ loadingHidden = TRUE
    /\ calls = EmptyBag
    /\ timers = <<>>
    /\ readers = {}
    /\ uploads = 1
    /\ server = <<Session(IF client = "pdf" THEN PdfType ELSE <<"image", "png">>,
                          heap[1])>>
    /\ warningsHidden = TRUE
    /\ lastDone = "upload"
    /\ userEvents = 1
    /\ out = [Quiet("uploadTimer", "done") EXCEPT
                !.toasts = <<ShowToast(IF client = "pdf"
                                         THEN "Resume parsed successfully!"
                                         ELSE "Text extracted successfully!",
                                       "success")>>]

LoadingNext ==
    \/ ShowPreview
    \/ \E call \in InFlight, resp \in PreviewResponses : ShowPreviewAwait(call, resp)
    \/ DownloadPDF
    \/ \E call \in InFlight, resp \in Responses : DownloadPDFAwait(call, resp)
    \/ DownloadDOCX
    \/ \E call \in InFlight, resp \in Responses : DownloadDOCXAwait(call, resp)
    \/ DownloadImage
    \/ \E call \in InFlight, resp \in Responses : DownloadImageAwait(call, resp)

SpecLoading ==
    /\ LoadingInit
    /\ [][LoadingNext]_vars
    /\ WF_vars(\E call \in InFlight, resp \in PreviewResponses :
                  ShowPreviewAwait(call, resp))
    /\ WF_vars(\E call \in InFlight, resp \in Responses : DownloadPDFAwait(call, resp))
    /\ WF_vars(\E call \in InFlight, resp \in Responses : DownloadDOCXAwait(call, resp))
    /\ WF_vars(\E call \in InFlight, resp \in Responses : DownloadImageAwait(call, resp))

\* ======================================================================
\* Properties
\* ======================================================================
\* A fetch that did not succeed: a non-OK response, a network error, or a
\* body that cannot be read.
FailedResponse(r) == r.status \in {"notok", "neterr"} \/ r.body = "bad"

SessionState == <<sessionId, parsedData, currentFields, currentImages, heap>>

DownloadOps == {"downloadPDF", "downloadDOCX", "downloadImage"}

OneErrorToast(o) == Len(o.toasts) = 1 /\ o.toasts[1].type = "error"

\* C1: in both clients a failed upload (non-OK response, network error or
\* unparsable body) creates no session: sessionId and the parsed data keep
\* their values, no switch to the edit section happens or is scheduled, and
\* one error toast is shown.
C1_FailedUploadCreatesNoSession ==
    [][(out'.op = "uploadFile" /\ FailedResponse(out'.response)) =>
         /\ SessionState' = SessionState
         /\ sections' = sections
         /\ timers' = timers
         /\ OneErrorToast(out')]_vars

C1_Witness ==
    /\ out.op = "uploadFile"
    /\ FailedResponse(out.response)
    /\ sessionId # Null
    /\ parsedData # Null

\* C2: showPreview is read-only: each of its steps leaves sessionId, the fields
\* and the images unchanged, its request carries exactly them, and a regenerate
\* sent right after a preview carries the same sessionId and fields.
C2_PreviewIsReadOnly ==
    [][/\ out'.op = "showPreview" =>
            /\ SessionState' = SessionState
            /\ out'.branch = "sent" =>
                 /\ Len(out'.requests) = 1
                 /\ out'.requests[1].sessionId = sessionId
                 /\ out'.requests[1].fields = Fields
       /\ (/\ out.op = "showPreview"
           /\ out'.op \in {"downloadPDF", "downloadImage"}
           /\ out'.branch = "sent") =>
            /\ out'.requests[1].sessionId = sessionId
            /\ out'.requests[1].fields = Fields
            /\ out.branch = "sent" =>
                 /\ out'.requests[1].sessionId = out.requests[1].sessionId
                 /\ out'.requests[1].fields = out.requests[1].fields]_vars

C2_Witness ==
    /\ out.op \in {"downloadPDF", "downloadImage"}
    /\ out.branch = "sent"
    /\ sessionId # Null
    /\ Len(Fields) > 0
    /\ BagIn(Call("preview", sessionId), calls)

\* C3: in the PDF client downloadPDF and downloadDOCX leave sessionId,
\* parsedData, currentFields and currentImages unchanged, whether they succeed
\* or fail, so two downloads with no edit in between send the same sessionId,
\* fields and images.
C3_DownloadsKeepSession ==
    [][client = "pdf" =>
         /\ out'.op \in {"downloadPDF", "downloadDOCX"} =>
              /\ SessionState' = SessionState
              /\ out'.branch = "sent" =>
                   out'.requests =
                     <<[url |-> IF out'.op = "downloadPDF" THEN "regenerate"
                                ELSE "export-docx",
                        sessionId |-> sessionId, fields |-> Fields,
                        images |-> Images]>>
         /\ (/\ out.op \in {"downloadPDF", "downloadDOCX"}
             /\ out.branch = "sent"
             /\ out'.op \in {"downloadPDF", "downloadDOCX"}
             /\ out'.branch = "sent") =>
              /\ out'.requests[1].sessionId = out.requests[1].sessionId
              /\ out'.requests[1].fields = out.requests[1].fields
              /\ out'.requests[1].images = out.requests[1].images]_vars

C3_Witness ==
    /\ client = "pdf"
    /\ out.op = "downloadDOCX"
    /\ out.branch = "sent"
    /\ sessionId # Null
    /\ BagIn(Call("regenerate", sessionId), calls)

\* C4: a failed preview, regenerate or DOCX export (non-OK response or network
\* error) leaves the session usable: sessionId, fields and images unchanged,
\* the active section unchanged, the loading overlay hidden.
C4_FailureKeepsSessionUsable ==
    [][(/\ out'.op \in {"showPreview"} \cup DownloadOps
        /\ out'.response.status \in {"notok", "neterr"}) =>
         /\ SessionState' = SessionState
         /\ sections' = sections
         /\ loadingHidden']_vars

C4_Witness ==
    /\ out.op = "showPreview"
    /\ out.response.status = "notok"
    /\ sessionId # Null
    /\ Len(Fields) > 0
    /\ loadingHidden

\* C5: no partial output: a regenerate or export whose response is not OK reads
\* no blob and saves no file; a file is saved only after an OK response.
C5_NoDownloadUnlessOk ==
    /\ out.response.status \in {"notok", "neterr"} =>
         out.saved = <<>> /\ out.read # "blob"
    /\ out.saved # <<>> =>
         out.op \in DownloadOps /\ out.response.status = "ok" /\ Len(out.saved) = 1

C5_Witness ==
    /\ out.op \in DownloadOps
    /\ out.response.status = "notok"
    /\ out.response.body = "plain"
    /\ sessionId # Null
    /\ out.saved = <<>>

\* The default message of a handler's thrown Error.
DefaultMessage(op) ==
    CASE op = "uploadFile" -> "Upload failed"
      [] op = "showPreview" -> "Preview generation failed"
      [] op = "downloadPDF" -> "PDF generation failed"
      [] op = "downloadDOCX" -> "DOCX generation failed"
      [] op = "downloadImage" -> "Image regeneration failed"

RequestOps == {"uploadFile", "showPreview"} \cup DownloadOps

\* Every step sends at most one request, a handler that reaches its fetch
\* exactly one, and a step that handles a failed request sends none and shows
\* exactly one error toast.
SurfacedOnceNeverRetried ==
    /\ Len(out.requests) <= 1
    /\ out.branch = "sent" => Len(out.requests) = 1
    /\ out.response # NoResponse => out.requests = <<>>
    /\ (out.op \in RequestOps /\ FailedResponse(out.response)) => OneErrorToast(out)

\* C6 as stated: errors are surfaced once and never retried, and the toast of a
\* failed request carries the server's error message or the default message.
C6_ToastCarriesServerOrDefaultMessage ==
    /\ SurfacedOnceNeverRetried
    /\ (out.op \in RequestOps /\ FailedResponse(out.response)) =>
         out.toasts[1].message \in {"server error", DefaultMessage(out.op)}

\* C6 as amended: errors are surfaced once and never retried; the toast carries
\* the server's error message when the non-OK body holds one, the default
\* message when that body holds none, and the message of the exception when
\* the fetch rejects or the body cannot be read.
C6_SurfacedOnceWithItsMessage ==
    /\ SurfacedOnceNeverRetried
    /\ (out.op \in RequestOps /\ FailedResponse(out.response)) =>
         out.toasts[1].message =
           CASE out.response.status = "neterr" -> "Failed to fetch"
             [] out.response.status = "ok" ->
                  IF out.op \in DownloadOps THEN "Failed to fetch"
                  ELSE "Unexpected token"
             [] out.response.body = "bad" -> "Unexpected token"
             [] out.response.body = "error" -> "server error"
             [] OTHER -> DefaultMessage(out.op)

C6_Witness ==
    /\ out.op = "showPreview"
    /\ out.response.status = "neterr"
    /\ sessionId # Null
    /\ out.toasts = <<ShowToast("Failed to fetch", "error")>>
    /\ out.requests = <<>>

\* C7: for no session S is a clear-session request for S in flight together
\* with a preview, regenerate or export request for S.
C7_ClearNeverOverlapsOperation ==
    \A c \in InFlight, d \in InFlight :
        ~(/\ c.kind = "clear-session"
          /\ d.kind \in {"preview", "regenerate", "export-docx"}
          /\ c.sid = d.sid)

\* C8: an input event on the control of field i sets currentFields[i].value to
\* the typed string and changes nothing else: the number and order of fields,
\* every id, label and box, every other value, the images and sessionId stay.
C8_EditChangesOnlyThatField ==
    [][out'.op = "input" =>
         /\ \E i \in 1..Len(Fields) :
              /\ editForm' = [editForm EXCEPT ![i].value = editForm'[i].value]
              /\ editForm'[i].value \in Typed
              /\ Fields' = [Fields EXCEPT ![i].value = editForm'[i].value]
         /\ Images' = Images
         /\ <<sessionId, currentFields, currentImages>>' =
              <<sessionId, currentFields, currentImages>>]_vars

C8_Witness ==
    /\ out.op = "input"
    /\ Len(Fields) = 2
    /\ Fields[1].value = "John"
    /\ Fields[2].value = ""

\* C9: in the image client every field whose confidence is below 70, 0
\* included, has a low-confidence marker and an editable input; a field with
\* confidence 70 or more, or with none, has no marker.
C9_LowConfidenceIsMarked ==
    (client = "image" /\ out.op = "uploadTimer" /\ out.branch = "done") =>
        \A i \in 1..Len(Fields) :
            /\ editForm[i].tag = "input"
            /\ editForm[i].id = Fields[i].id
            /\ editForm[i].badge <=>
                 (Fields[i].confidence # NoConf /\ Fields[i].confidence < 70)

\* C10: the PDF client sends no upload request for a file larger than 5 MB or
\* not of type application/pdf, from the file input or from a drop; the file
\* gets an error toast and sessionId, parsedData and the sections stay.
C10_PdfClientRejectsBadFiles ==
    [][(/\ client = "pdf"
        /\ out'.op \in {"handleFileSelect", "handleDrop"}
        /\ out'.files # <<>>
        /\ \/ out'.files[1].size > 5 * 1024 * 1024
           \/ out'.files[1].type # <<"application", "pdf">>) =>
         /\ out'.requests = <<>>
         /\ calls' = calls
         /\ OneErrorToast(out')
         /\ SessionState' = SessionState
         /\ sections' = sections]_vars

C10_Witness ==
    /\ client = "pdf"
    /\ out.op = "handleDrop"
    /\ out.files # <<>>
    /\ out.files[1].type = PdfType
    /\ out.files[1].size > MaxFileSize
    /\ sessionId # Null

\* C11: the image client sends an upload request only for a PNG, JPEG, BMP or
\* TIFF file; a file of any other type gets an error toast and no request.
C11_ImageClientSendsOnlySupportedFormats ==
    (/\ client = "image"
     /\ out.op \in {"handleFileSelect", "handleDrop"}
     /\ out.files # <<>>
     /\ out.files[1].type \notin SupportedImageTypes) =>
        out.requests = <<>> /\ OneErrorToast(out)

\* The image format a file name designates by its extension.
FormatOfName(name) ==
    CASE name = "image_edited.jpg" -> "jpeg"
      [] name = "resume_edited.pdf" -> "pdf"
      [] name = "resume_edited.docx" -> "docx"

\* The calls a step settles.
Settled == {c \in BagToSet(calls) : CopiesIn(c, calls') < CopiesIn(c, calls)}

\* C12: in the image client the file saved after a successful regenerate is
\* designated as the format of the file uploaded for that session.
C12_SavedInUploadedFormat ==
    [][(client = "image" /\ out'.op = "downloadImage" /\ out'.saved # <<>>) =>
         \A c \in Settled :
            (c.sid # Null /\ server[c.sid].format \in SupportedImageTypes) =>
               FormatOfName(out'.saved[1]) = server[c.sid].format[2]]_vars

\* C13: replacing image i changes only currentImages[i].data: choosing the file
\* changes no session state, its load changes no field, no other image and not
\* sessionId, and the data of a slot changes only by a replacement chosen for
\* that slot, so a slot never replaced is sent with the bytes of the upload.
C13_ReplacementTouchesOnlyItsSlot ==
    [][/\ out'.op = "change" => SessionState' = SessionState
       /\ out'.op = "onload" =>
            /\ Fields' = Fields
            /\ <<sessionId, parsedData, currentFields, currentImages>>' =
                 <<sessionId, parsedData, currentFields, currentImages>>
            /\ Len(Images') = Len(Images)
            /\ \A r \in readers \ readers' : \A j \in 1..Len(Images) :
                 /\ Images'[j].format = Images[j].format
                 /\ j # r.index => Images'[j] = Images[j]
       /\ \A j \in 1..Len(Images) :
            (currentImages' = currentImages /\ Images'[j].data # Images[j].data) =>
               \E r \in readers \ readers' : r.preview = <<currentImages, j>>]_vars

\* C14: an upload of the image client that succeeds with zero text fields is no
\* error: the response shows no toast and stores the session, and the form
\* generated for it holds the no-text message and no text input, in the edit
\* section.
C14_ZeroFieldsIsNoError ==
    [][client = "image" =>
         /\ (out'.op = "uploadFile" /\ ~FailedResponse(out'.response)) =>
              /\ out'.toasts = <<>>
              /\ sessionId' # Null /\ parsedData' # Null
              /\ Len(timers') = Len(timers) + 1
         /\ (/\ out'.op = "uploadTimer"
             /\ parsedData # Null
             /\ Len(heap[parsedData].fields) = 0) =>
              /\ \A i \in 1..Len(out'.toasts) : out'.toasts[i].type # "error"
              /\ sections' = ShowSection("edit")
              /\ editForm' = <<NoFieldsMessage>>
              /\ sessionId' = sessionId /\ parsedData' = parsedData]_vars

C14_Witness ==
    /\ client = "image"
    /\ out.op = "uploadTimer"
    /\ sessionId # Null
    /\ parsedData # Null
    /\ Fields = <<>>
    /\ editForm = <<NoFieldsMessage>>
    /\ ActiveSections = {"edit"}

\* C15: warnings never block: a successful preview response always moves to
\* the preview section, and leaves the warnings container visible exactly when
\* it carried a warning; no other step shows or hides the container.
C15_WarningsFollowLatestPreview ==
    [][IF out'.op = "showPreview" /\ out'.response.status = "ok"
                                  /\ out'.response.body # "bad"
       THEN /\ sections' = ShowSection("preview")
            /\ loadingHidden'
            /\ warningsHidden' <=> out'.response.body # "warnings"
       ELSE warningsHidden' = warningsHidden]_vars

C15_Witness ==
    /\ out.op = "showPreview"
    /\ out.response = [status |-> "ok", body |-> "warnings"]
    /\ ~warningsHidden
    /\ ActiveSections = {"preview"}
    /\ sessionId # Null

\* C16: resetUpload with a session sends exactly one clear-session request
\* carrying its sessionId, and when it finishes, whatever became of that
\* request, sessionId and the parsed data are null, the field list, the image
\* list and the form are empty, and the upload section is the active one.
C16_ResetDestroysSession ==
    [][out'.op = "resetUpload" =>
         IF userEvents' # userEvents /\ sessionId # Null
         THEN /\ out'.requests = <<[url |-> "clear-session", sessionId |-> sessionId]>>
              /\ calls' = calls (+) SetToBag({Call("clear-session", sessionId)})
         ELSE /\ out'.requests = <<>>
              /\ BagToSet(calls') \subseteq BagToSet(calls)
              /\ sessionId' = Null
              /\ parsedData' = Null
              /\ Fields' = <<>>
              /\ Images' = <<>>
              /\ editForm' = <<>>
              /\ ActiveSections' = {"upload"}]_vars

C16_Witness ==
    /\ out.op = "resetUpload"
    /\ out.branch = "caught"
    /\ uploads > 0
    /\ sessionId = Null
    /\ parsedData = Null
    /\ editForm = <<>>

\* C17: once generateEditForm has run on the parsed data, the form holds one
\* text control per field, in order, with the field's id, label and value,
\* then (PDF client) one replace control per image, and no control of an
\* earlier document.
C17_FormMirrorsParsedData ==
    [][(out'.op = "uploadTimer" /\ parsedData # Null) =>
         LET texts == SelectSeq(editForm', LAMBDA c : c.tag = "input")
             files == SelectSeq(editForm', LAMBDA c : c.tag = "file")
             doc == heap'[parsedData']
         IN  /\ Fields' = doc.fields
             /\ Len(texts) = Len(doc.fields)
             /\ \A i \in 1..Len(texts) :
                  /\ texts[i].id = doc.fields[i].id
                  /\ texts[i].label = doc.fields[i].label
                  /\ texts[i].value = doc.fields[i].value
             /\ IF client = "pdf"
                THEN /\ Images' = doc.images
                     /\ Len(files) = Len(doc.images)
                     /\ \A i \in 1..Len(files) :
                          files[i].index = i /\ files[i].src = doc.images[i].data
                ELSE files = <<>>
             /\ SelectSeq(editForm', LAMBDA c : c.tag \in {"input", "file"})
                  = texts \o files]_vars

C17_Witness ==
    /\ client = "pdf"
    /\ out.op = "uploadTimer"
    /\ out.branch = "done"
    /\ uploads = 2
    /\ timers = <<>>
    /\ currentFields = 2
    /\ Len(Fields) = 1
    /\ Len(Images) = 1
    /\ Len(editForm) = 2

\* C18: the fields of every preview, regenerate and export request have the
\* ids, in the order, of the field list the server returned for the sessionId
\* the same request carries.
C18_RequestFieldsBelongToItsSession ==
    \A i \in 1..Len(out.requests) :
        (/\ out.requests[i].url \in {"preview", "regenerate", "export-docx"}
         /\ out.requests[i].sessionId # Null) =>
            FieldIds(out.requests[i].fields) = server[out.requests[i].sessionId].fields

\* C19: the deferred callback of a successful upload never runs
\* generateEditForm on null parsed data: it always completes, and shows the
\* edit section.
C19_TimerNeverSeesNullData ==
    [][out'.op = "uploadTimer" =>
         /\ parsedData # Null
         /\ out'.branch = "done"
         /\ sections' = ShowSection("edit")]_vars

\* C20: the load of a replacement image writes into the image list of the
\* document it was chosen for, and finds its slot there.
C20_ReplacementStaysInItsDocument ==
    [][out'.op = "onload" =>
         \A r \in readers \ readers' :
            /\ currentImages = r.preview[1]
            /\ r.index <= Len(Images)
            /\ out'.branch = "done"]_vars

\* C21: no session is silently abandoned: sessionId ceases to hold a session
\* (overwritten by an upload response, or set to null by resetUpload) only when
\* a clear-session request for that session was sent.  A clear-session request
\* for the session held is still in flight then, since its completion is what
\* sets sessionId to null.
C21_NoSessionAbandoned ==
    [][(sessionId # Null /\ sessionId' # sessionId) =>
          BagIn(Call("clear-session", sessionId), calls)]_vars

\* C22: whenever the edit or the preview section is active, sessionId is not
\* null, and no preview, regenerate or export request carries a null sessionId.
C22_SectionImpliesSession ==
    /\ (ActiveSections \cap {"edit", "preview"} # {}) => sessionId # Null
    /\ \A i \in 1..Len(out.requests) :
         out.requests[i].url \in {"preview", "regenerate", "export-docx"} =>
            out.requests[i].sessionId # Null

\* No upload response, deferred form generation or reset is pending.
Quiescent ==
    /\ timers = <<>>
    /\ \A c \in InFlight : c.kind \notin {"upload", "clear-session"}

\* C23: when the last pending upload response, form-generation timer or reset
\* completes and the last of the uploads and resets was a successful upload,
\* sessionId names the session of the latest successful upload response,
\* currentFields is the field list of that response, and the edit section is
\* active.
C23_QuiescentConsistency ==
    [][(/\ out'.op = "uploadTimer"
        /\ Quiescent'
        /\ lastDone' = "upload") =>
          /\ sessionId' = Len(server')
          /\ parsedData' = sessionId'
          /\ currentFields' = parsedData'
          /\ Fields' = heap'[parsedData'].fields
          /\ FieldIds(Fields') = server'[sessionId'].fields
          /\ ActiveSections' = {"edit"}]_vars

C23_Witness ==
    /\ out.op = "uploadTimer"
    /\ Quiescent
    /\ lastDone = "upload"
    /\ uploads = 2
    /\ sessionId = 2
    /\ currentFields = 2
    /\ Len(Fields) > 0
    /\ ActiveSections = {"edit"}

\* C24: after showSection(s), whatever the classes before, exactly section s
\* is active and not hidden and the other two are hidden and not active, so at
\* most one section is active; with an argument that names no section all
\* three are hidden and none is active.
C24_ShowSectionIsExclusive ==
    /\ [][out'.op = "showSection" =>
            IF out'.branch \in Sections
            THEN /\ sections' = ShowSection(out'.branch)
                 /\ \A s \in Sections :
                      sections'[s] = IF s = out'.branch THEN {"active"} ELSE {"hidden"}
            ELSE \A s \in Sections : sections'[s] = {"hidden"}]_vars
    /\ [](out.op = "showSection" => Cardinality(ActiveSections) <= 1)

C24_Witness ==
    /\ out.op = "showSection"
    /\ out.branch = "preview"
    /\ ActiveSections = {"preview"}
    /\ sections["upload"] = {"hidden"}
    /\ sections["edit"] = {"hidden"}

\* A preview, regenerate or export request is in flight.
OverlayRequests == {c \in InFlight : c.kind \in {"preview", "regenerate", "export-docx"}}

\* C25: the loading overlay never stays up: the step that completes a preview,
\* regenerate or export hides it, on success and on every failure; whenever no
\* such request is in flight it is hidden; and once shown it is eventually
\* hidden again.
C25_LoadingOverlayNeverStays ==
    /\ [](OverlayRequests = {} => loadingHidden)
    /\ [][(out'.op \in {"showPreview"} \cup DownloadOps
           /\ out'.response # NoResponse) => loadingHidden']_vars
    /\ (~loadingHidden) ~> loadingHidden

C25_Witness ==
    /\ out.op = "downloadDOCX"
    /\ out.response.status = "neterr"
    /\ loadingHidden
    /\ OverlayRequests = {}
    /\ userEvents = MaxUserEvents

\* C26: in the image client, showPreview with an empty field list sends no
\* request, shows a warning toast and changes neither the section nor the
\* state; and no preview or regenerate request carries the sessionId of a
\* session whose extraction produced zero fields.
C26_NoRequestForZeroFields ==
    [][client = "image" =>
         /\ (/\ out'.op = "showPreview"
             /\ userEvents' # userEvents
             /\ Len(Fields) = 0) =>
               /\ out'.requests = <<>>
               /\ calls' = calls
               /\ Len(out'.toasts) = 1 /\ out'.toasts[1].type = "warning"
               /\ SessionState' = SessionState
               /\ sections' = sections
               /\ editForm' = editForm
         /\ \A i \in 1..Len(out'.requests) :
               (/\ out'.requests[i].url \in {"preview", "regenerate"}
                /\ out'.requests[i].sessionId # Null) =>
                  server[out'.requests[i].sessionId].fields # <<>>]_vars

====
